---- MODULE Spec2Model ----
(***************************************************************************)
(* State-machine model of the ministark prover core:                       *)
(*   - the binary Merkle tree of src/src/merkle.rs (construction, prove,   *)
(*     verify, the matrix-row adapter, the parallel node build);           *)
(*   - the generate_proof pipeline of src/mini-stark/src/prover.rs.        *)
(*                                                                         *)
(* Byte strings are sequences of integers.  A byte is a number 0..255; the *)
(* three negative symbols below stand for the digest function, which is    *)
(* modelled as collision free: Hash(s) brackets its preimage s, so two     *)
(* digests are equal exactly when their preimages are.                     *)
(***************************************************************************)
EXTENDS Integers, Sequences, FiniteSets, TLC

(***************************************************************************)
(* Bounds of the model.                                                    *)
(***************************************************************************)
\* Longest leaf vector handed to MerkleTreeImpl::new (trees of 2, 4, 8 leaves).
MaxLeaves == 8
\* Leaf values are 0..MaxLeafVal.
MaxLeafVal == 1
\* Matrices committed by rows have 1..MaxCols columns and 0..MaxRows rows.
MaxCols == 2
MaxRows == 4
\* Field elements are 0..MaxField.
MaxField == 1
\* The parallel node build runs on 2^1..2^MaxParLog leaves with
\* rayon::current_num_threads() in 1..MaxThreads.
MaxParLog == 3
MaxThreads == 4
\* generate_proof: traces of 2^1..2^MaxTraceLog rows and 1..MaxWidth base
\* columns, an extension of 1..MaxWidth columns or none; an AIR with an LDE
\* blowup factor 2^1..2^MaxBlowupLog, 0..MaxChallenges challenges and
\* 1..MaxConstraints constraints of each kind.
MaxTraceLog == 2
MaxWidth == 2
MaxBlowupLog == 2
MaxChallenges == 1
MaxConstraints == 2
\* build_constraint_commitment on values: evaluation matrices of
\* 2^1..2^MaxQuotientLog rows with entries 0..MaxEval, at most
\* MaxQuotientCols columns of one kind, divisors with entries 1..MaxDivisor
\* in the field of MaxDivisor + 1 elements.
MaxQuotientLog == 1
MaxQuotientCols == 2
MaxEval == 1
MaxDivisor == 2

(***************************************************************************)
(* The digest (C::Digest with Output<C::Digest>).                          *)
(***************************************************************************)
\* Digest::new(): opens a hasher; the preimage follows.
DigestOpen == -1
\* Digest::finalize(): closes the preimage.
DigestClose == -2
\* The byte pattern of Output::<D>::default(): the all-zero digest.
DigestZero == -3

\* hasher.update(a); hasher.update(b); hasher.finalize() is Hash(a \o b).
Hash(bytes) == <<DigestOpen>> \o bytes \o <<DigestClose>>

\* Output::<C::Digest>::default()
DefaultDigest == <<DigestZero>>

\* u32::to_be_bytes
ToBeBytes(v) ==
    << (v \div 16777216) % 256, (v \div 65536) % 256, (v \div 256) % 256, v % 256 >>

(***************************************************************************)
(* MerkleTreeConfig: the two leaf policies of the source.                  *)
(*   "raw"    : tests::UnhashedLeafConfig, Leaf = u32                      *)
(*   "hashed" : HashedLeafConfig<D>,       Leaf = SerdeOutput<D>           *)
(***************************************************************************)
Configs == {"raw", "hashed"}

\* The bytes a leaf contributes to hash_leaves.
LeafBytes(c, l) == IF c = "raw" THEN ToBeBytes(l) ELSE l

hash_leaves(c, l0, l1) == Hash(LeafBytes(c, l0) \o LeafBytes(c, l1))

\* The internal-node rule: hasher.update(lhs); hasher.update(rhs); finalize().
hash_nodes(lhs, rhs) == Hash(lhs \o rhs)

(***************************************************************************)
(* Small integer helpers.                                                  *)
(***************************************************************************)
RECURSIVE is_power_of_two(_)
is_power_of_two(n) ==
    IF n <= 0 THEN FALSE
    ELSE IF n = 1 THEN TRUE
    ELSE n % 2 = 0 /\ is_power_of_two(n \div 2)

\* index ^ 1 dropped: the node itself instead of its sibling.
Xor1Dropped(i) == i

\* index ^ 1
Xor1(i) == IF i % 2 = 0 THEN i + 1 ELSE i - 1

\* A Vec of length n as a function on 0..n-1.
VecLen(v) == Cardinality(DOMAIN v)
EmptyVec == [i \in {} |-> 0]

(***************************************************************************)
(* build_merkle_nodes_default, sequential (not(feature = "parallel")).     *)
(***************************************************************************)
RECURSIVE SeqLeafLayer(_, _, _, _)
SeqLeafLayer(c, leaves, nodes, i) ==
    LET n == VecLen(leaves) IN
    IF i >= n \div 2 THEN nodes
    ELSE SeqLeafLayer(c, leaves,
            [nodes EXCEPT ![n \div 2 + i] = hash_leaves(c, leaves[i * 2], leaves[i * 2 + 1])],
            i + 1)

RECURSIVE SeqUpperLayers(_, _)
SeqUpperLayers(nodes, i) ==
    IF i < 1 THEN nodes
    ELSE SeqUpperLayers(
            [nodes EXCEPT ![i] = hash_nodes(nodes[i * 2], nodes[i * 2 + 1])],
            i - 1)

build_merkle_nodes_seq(c, leaves) ==
    LET n == VecLen(leaves)
        nodes0 == [i \in 0..(n - 1) |-> DefaultDigest]
    IN SeqUpperLayers(SeqLeafLayer(c, leaves, nodes0, 0), n \div 2 - 1)

(***************************************************************************)
(* MerkleTreeImpl::new, root, prove, verify.                               *)
(***************************************************************************)
\* C::build_merkle_nodes as compiled without the "parallel" feature.
build_merkle_nodes(c, leaves) == build_merkle_nodes_seq(c, leaves)

\* new with its two tests in the other order.
MerkleTreeImpl_new_swapped(c, leaves) ==
    LET n == VecLen(leaves) IN
    IF ~is_power_of_two(n) THEN [tag |-> "NumberOfLeavesNotPowerOfTwo", n |-> n]
    ELSE IF n < 2 THEN [tag |-> "TooFewLeaves", expected |-> 2, actual |-> n]
    ELSE [tag |-> "Ok", nodes |-> build_merkle_nodes(c, leaves), leaves |-> leaves]

MerkleTreeImpl_new(c, leaves) ==
    LET n == VecLen(leaves) IN
    IF n < 2 THEN [tag |-> "TooFewLeaves", expected |-> 2, actual |-> n]
    ELSE IF ~is_power_of_two(n) THEN [tag |-> "NumberOfLeavesNotPowerOfTwo", n |-> n]
    ELSE [tag |-> "Ok", nodes |-> build_merkle_nodes(c, leaves), leaves |-> leaves]

\* root(): &self.nodes[1]
root(tree) == tree.nodes[1]

\* The while loop of prove with the guard index >= 1: the root's sibling slot
\* nodes[0] is pushed too.
RECURSIVE ProvePathPastRoot(_, _, _)
ProvePathPastRoot(nodes, index, path) ==
    IF index >= 1
    THEN ProvePathPastRoot(nodes, index \div 2, Append(path, nodes[Xor1(index)]))
    ELSE path

\* The while loop of prove: push nodes[index ^ 1], index >>= 1, while index > 1.
RECURSIVE ProvePath(_, _, _)
ProvePath(nodes, index, path) ==
    IF index > 1
    THEN ProvePath(nodes, index \div 2, Append(path, nodes[Xor1(index)]))
    ELSE path

\* prove with the bound test off by one (index > len): leaves[len] is then read,
\* which panics.
prove_off_by_one(tree, index) ==
    IF index > VecLen(tree.leaves)
    THEN [tag |-> "LeafIndexOutOfBounds", n |-> VecLen(tree.leaves), i |-> index]
    ELSE IF index = VecLen(tree.leaves) THEN [tag |-> "panic"]
    ELSE [tag |-> "Ok",
          proof |-> [path |-> ProvePath(tree.nodes, (index + VecLen(tree.nodes)) \div 2, <<>>),
                     sibling |-> tree.leaves[Xor1(index)],
                     leaf |-> tree.leaves[index]]]

prove(tree, index) ==
    IF index >= VecLen(tree.leaves)
    THEN [tag |-> "LeafIndexOutOfBounds", n |-> VecLen(tree.leaves), i |-> index]
    ELSE [tag |-> "Ok",
          proof |-> [path |-> ProvePath(tree.nodes, (index + VecLen(tree.nodes)) \div 2, <<>>),
                     sibling |-> tree.leaves[Xor1(index)],
                     leaf |-> tree.leaves[index]]]

\* MerkleProof::height
height(proof) == Len(proof.path) + 1

\* The for loop of verify without its index >>= 1.
RECURSIVE VerifyFoldNoShift(_, _, _, _)
VerifyFoldNoShift(path, k, running_hash, index) ==
    IF k > Len(path) THEN running_hash
    ELSE VerifyFoldNoShift(path, k + 1,
            IF index % 2 = 0 THEN hash_nodes(running_hash, path[k])
                             ELSE hash_nodes(path[k], running_hash),
            index)

\* The for loop of verify over proof.path, from position k of the path.
RECURSIVE VerifyFold(_, _, _, _)
VerifyFold(path, k, running_hash, index) ==
    IF k > Len(path) THEN running_hash
    ELSE VerifyFold(path, k + 1,
            IF index % 2 = 0 THEN hash_nodes(running_hash, path[k])
                             ELSE hash_nodes(path[k], running_hash),
            index \div 2)

\* verify hashing proof.leaf twice for an even index (proof.sibling unread).
VerifyHashLeafTwice(c, proof, index) ==
    LET running_hash == IF index % 2 = 0
                        THEN hash_leaves(c, proof.leaf, proof.leaf)
                        ELSE hash_leaves(c, proof.sibling, proof.leaf)
    IN VerifyFold(proof.path, 1, running_hash, index \div 2)

\* The digest verify compares with the root.
VerifyHash(c, proof, index) ==
    LET running_hash == IF index % 2 = 0
                        THEN hash_leaves(c, proof.leaf, proof.sibling)
                        ELSE hash_leaves(c, proof.sibling, proof.leaf)
    IN VerifyFold(proof.path, 1, running_hash, index \div 2)

\* verify with a bound check of the index against 2^height leaves.
verify_bounded(c, rt, proof, index) ==
    IF index >= 2 ^ (Len(proof.path) + 1)
    THEN [tag |-> "LeafIndexOutOfBounds", n |-> 2 ^ (Len(proof.path) + 1), i |-> index]
    ELSE IF rt = VerifyHash(c, proof, index) THEN [tag |-> "Ok"] ELSE [tag |-> "InvalidProof"]

verify(c, rt, proof, index) ==
    IF rt = VerifyHash(c, proof, index) THEN [tag |-> "Ok"] ELSE [tag |-> "InvalidProof"]

(***************************************************************************)
(* Matrix<F>: column major, a sequence of columns, each a Vec of the same  *)
(* length.                                                                 *)
(***************************************************************************)
num_cols(m) == Len(m)
num_rows(m) == IF Len(m) = 0 THEN 0 ELSE VecLen(m[1])
\* read_row(i, out): out[j] is column j at row i.
read_row(m, i) == [j \in 1..num_cols(m) |-> m[j][i]]

(***************************************************************************)
(* The matrix-row adapter MatrixMerkleTreeImpl<D>: hash_row, hash_rows,    *)
(* from_matrix, prove_row, verify_row.                                     *)
(***************************************************************************)
\* The 8 little-endian bytes of a u64 (a length, or a field element of fp64).
RECURSIVE LeBytes(_, _)
LeBytes(v, n) == IF n = 0 THEN <<>> ELSE <<v % 256>> \o LeBytes(v \div 256, n - 1)

U64Bytes(v) == LeBytes(v, 8)

RECURSIVE ElementBytes(_, _)
ElementBytes(row, k) ==
    IF k > Len(row) THEN <<>> ELSE U64Bytes(row[k]) \o ElementBytes(row, k + 1)

\* row.serialize_compressed(..): the length of the slice, then its elements.
SerializeRow(row) == U64Bytes(Len(row)) \o ElementBytes(row, 1)

\* hash_row_with_buffer: the row is serialized after what the buffer holds, and
\* the whole buffer is digested.
hash_row_with_buffer(row, buffer) == Hash(buffer \o SerializeRow(row))

\* hash_row: a fresh buffer.
hash_row(row) == hash_row_with_buffer(row, <<>>)

\* hash_rows without the "parallel" feature: one chunk of chunk_size =
\* num_rows (chunks_mut panics on a chunk size of 0); row_bytes is cleared before
\* each row.
hash_rows(m) ==
    IF num_rows(m) = 0 THEN [tag |-> "panic"]
    ELSE [tag |-> "Ok",
          row_hashes |-> [i \in 0..(num_rows(m) - 1) |->
                            hash_row_with_buffer(read_row(m, i), <<>>)]]

\* MatrixMerkleTreeImpl::new(leaves): MerkleTreeImpl::new(leaves)?
MatrixMerkleTreeImpl_new(leaves) == MerkleTreeImpl_new("hashed", leaves)

\* from_matrix(m): Self::new(hash_rows(m)).unwrap()
from_matrix(m) ==
    LET hashes == hash_rows(m) IN
    IF hashes.tag # "Ok" THEN [tag |-> "panic"]
    ELSE LET r == MatrixMerkleTreeImpl_new(hashes.row_hashes) IN
         IF r.tag = "Ok" THEN r ELSE [tag |-> "panic", error |-> r]

\* prove_row(row_idx): <Self as MerkleTree>::prove(self, row_idx)
prove_row(tree, row_idx) == prove(tree, row_idx)

\* verify_row that hands every row to verify (no comparison with proof.leaf).
verify_row_unbound(rt, row_idx, row, proof) ==
    [res |-> verify("hashed", rt, proof, row_idx), delegated |-> TRUE]

\* verify_row: the row is rehashed and compared with proof.leaf; only a match
\* is handed to verify.
verify_row(rt, row_idx, row, proof) ==
    LET row_hash == hash_row(row) IN
    IF proof.leaf = row_hash
    THEN [res |-> verify("hashed", rt, proof, row_idx), delegated |-> TRUE]
    ELSE [res |-> [tag |-> "InvalidProof"], delegated |-> FALSE]

(***************************************************************************)
(* State.                                                                  *)
(*                                                                         *)
(* Merkle API (specification Spec): one tree is built from an input and    *)
(* then proved and verified.                                               *)
(***************************************************************************)
VARIABLES
    kind,       \* "leaves": MerkleTreeImpl on a leaf vector; "matrix": the row adapter
    matrix,     \* the matrix handed to from_matrix (kind "matrix")
    vRow,       \* the row handed to the last verify_row call
    delegated,  \* whether the last verify_row call handed the proof to verify
    cfg,        \* the MerkleTreeConfig in use
    input,      \* the leaves handed to MerkleTreeImpl::new
    built,      \* what new returned: tag "none" before the call
    builds,     \* number of calls of C::build_merkle_nodes so far
    provedIdx,  \* the index of the last prove call
    proved,     \* what the last prove call returned
    vRoot,      \* the root handed to the last verify call
    vProof,     \* the proof handed to the last verify call
    vIdx,       \* the index handed to the last verify call
    tampered,   \* which component of (root, proof) the caller changed
    verified,   \* what the last verify call returned
    op          \* the operation called last: "init", "new", "prove", "verify"

merkleVars ==
    <<kind, matrix, vRow, delegated, cfg, input, built, builds, provedIdx, proved, vRoot, vProof, vIdx, tampered, verified, op>>

(***************************************************************************)
(* Parallel node build (specification SpecPar): build_merkle_nodes_default *)
(* with the "parallel" feature, one process per spawned subtree task, then *)
(* the sequential tip.                                                     *)
(***************************************************************************)
VARIABLES
    pCfg,       \* the MerkleTreeConfig in use
    pLeaves,    \* leaves: &[C::Leaf]
    pSub,       \* num_subtrees
    pNodes,     \* nodes, shared by the tasks through the raw pointer
    pOwner,     \* per index of nodes: NoOwner, or who wrote it (task i, or TipOwner)
    pTask,      \* per task i: its position and locals
    pPhase,     \* "idle", "scope" (tasks running), "tip", "done" (nodes returned)
    pTip        \* the loop variable i of the tip loop

parVars == <<pCfg, pLeaves, pSub, pNodes, pOwner, pTask, pPhase, pTip>>

(***************************************************************************)
(* Prover::generate_proof (specification SpecProver): one call, its        *)
(* position, locals, channel and result.                                   *)
(***************************************************************************)
VARIABLES
    gIn,        \* the call's inputs: the prover's options, the trace, the AIR
    gPc,        \* the statement of generate_proof that runs next
    gLoc,       \* the locals of generate_proof
    gChannel,   \* the ProverChannel's transcript, oldest event first
    gCalls,     \* the collaborator calls made so far, oldest first
    gStages,    \* the pipeline stages entered so far, oldest first
    gResult     \* what generate_proof returned: tag "none" while it runs

proverVars == <<gIn, gPc, gLoc, gChannel, gCalls, gStages, gResult>>

(***************************************************************************)
(* Prover::build_constraint_commitment on field values (specification      *)
(* SpecQuotient): one call, its position and locals.                       *)
(***************************************************************************)
VARIABLES
    qIn,        \* the call's arguments: the three evaluation matrices, the AIR's divisors
    qPc,        \* the statement of build_constraint_commitment that runs next
    qLoc        \* the locals of build_constraint_commitment

quotientVars == <<qIn, qPc, qLoc>>

vars == <<merkleVars, parVars, proverVars, quotientVars>>

notMerkleVars == <<parVars, proverVars, quotientVars>>
notParVars == <<merkleVars, proverVars, quotientVars>>
notProverVars == <<merkleVars, parVars, quotientVars>>
notQuotientVars == <<merkleVars, parVars, proverVars>>

None == [tag |-> "none"]
NoProof == [path |-> <<>>, sibling |-> 0, leaf |-> 0]

(***************************************************************************)
(* Inputs.                                                                 *)
(***************************************************************************)
\* A leaf of configuration cfg carrying value v: the u32 itself, or its digest
\* (tests::verify_hashed_leaves: Sha256::digest(v.to_be_bytes())).
LeafOf(c, v) == IF c = "raw" THEN v ELSE Hash(ToBeBytes(v))

\* Leaf vectors are taken up to a renaming of the leaf values (the first value
\* is 0 and a new value is the least one not used yet): the digest only tests
\* leaves for equality.
Canonical(v, n) ==
    \A i \in 0..(n - 1) :
        \/ v[i] = 0
        \/ \E k \in 0..(i - 1) : v[k] >= v[i] - 1 /\ v[i] >= 1

ValueVectors(n) == { v \in [0..(n - 1) -> 0..MaxLeafVal] : Canonical(v, n) }

LeafInputs(c) ==
    UNION { { [i \in 0..(n - 1) |-> LeafOf(c, v[i])] : v \in ValueVectors(n) } : n \in 0..MaxLeaves }

\* Row number v of a matrix of c columns; a matrix of n rows takes its rows by
\* a value vector, column major.
RowOf(c, v) == [j \in 1..c |-> (v + j) % (MaxField + 1)]

MatrixOf(c, n, v) == [j \in 1..c |-> [i \in 0..(n - 1) |-> RowOf(c, v[i])[j]]]

MatrixInputs ==
    UNION { { MatrixOf(c, n, v) : v \in ValueVectors(n) } :
                c \in 1..MaxCols, n \in 0..MaxRows }

\* Rows handed to verify_row: every row of 1..MaxCols field elements.
RowInputs == UNION { [1..c -> 0..MaxField] : c \in 1..MaxCols }

\* Indices handed to prove: every leaf index and two past the end.
ProveIndices(n) == 0..(n + 1)

\* Indices handed to verify: every leaf index and as many again past the end.
VerifyIndices(n) == 0..(2 * n - 1)

\* Values a caller can put in place of a leaf of the proof.
OtherLeaves(c, l) == { LeafOf(c, v) : v \in 0..(MaxLeafVal + 1) } \ {l}

\* Digests a caller can put in place of a digest of the proof or of the root.
OtherDigests(tree, d) ==
    ({ tree.nodes[x] : x \in DOMAIN tree.nodes } \cup {DefaultDigest, Hash(<<>>)}) \ {d}

(***************************************************************************)
(* build_merkle_nodes_default with feature "parallel".                     *)
(***************************************************************************)
NoOwner == 0 - 1
TipOwner == 0 - 2

\* usize::next_power_of_two
RECURSIVE PowerOfTwoFrom(_, _)
PowerOfTwoFrom(p, t) == IF p >= t THEN p ELSE PowerOfTwoFrom(2 * p, t)
next_power_of_two(t) == PowerOfTwoFrom(1, t)

\* core::cmp::min(rayon::current_num_threads().next_power_of_two(), n / 2)
num_subtrees(threads, n) ==
    IF next_power_of_two(threads) < n \div 2 THEN next_power_of_two(threads) ELSE n \div 2

\* The guard of "while start_idx >= num_subtrees", written with > instead.
WhileGuardStrict(start_idx, subtrees) == start_idx > subtrees

\* The guard of "while start_idx >= num_subtrees".
WhileGuard(start_idx, subtrees) == start_idx >= subtrees

\* Where a task stands once a level (start_idx, batch_size) is entered: at its
\* first k = start_idx + batch_size - 1 when the guard holds and the range is
\* not empty, at the next level (start_idx / 2, batch_size / 2) when the range is
\* empty, finished when the guard fails.
RECURSIVE EnterLevel(_, _, _)
EnterLevel(start_idx, batch_size, subtrees) ==
    IF ~WhileGuard(start_idx, subtrees) THEN [pc |-> "done"]
    ELSE IF batch_size = 0 THEN EnterLevel(start_idx \div 2, 0, subtrees)
    ELSE [pc |-> "read", start_idx |-> start_idx, batch_size |-> batch_size,
          k |-> start_idx + batch_size - 1]

PIdle ==
    /\ pCfg = "raw"
    /\ pLeaves = EmptyVec
    /\ pSub = 0
    /\ pNodes = EmptyVec
    /\ pOwner = EmptyVec
    /\ pTask = EmptyVec
    /\ pPhase = "idle"
    /\ pTip = 0

\* Leaf vectors of the parallel build: leaves[i] = i % q, from all leaves equal
\* (q = 1) to all leaves different (q = n).
ParLeafInputs(c) ==
    UNION { { [i \in 0..(2 ^ e - 1) |-> LeafOf(c, i % q)] : q \in 1..(2 ^ e) } :
                e \in 1..MaxParLog }

\* The function is entered: n, num_subtrees and nodes are set, and the scope
\* has spawned its num_subtrees tasks, each at j = 0 of its first loop.
InitPar ==
    /\ pCfg \in Configs
    /\ pLeaves \in ParLeafInputs(pCfg)
    /\ \E threads \in 1..MaxThreads : pSub = num_subtrees(threads, VecLen(pLeaves))
    /\ pNodes = [x \in 0..(VecLen(pLeaves) - 1) |-> DefaultDigest]
    /\ pOwner = [x \in 0..(VecLen(pLeaves) - 1) |-> NoOwner]
    /\ pTask = [i \in 0..(pSub - 1) |-> [pc |-> "first", j |-> 0]]
    /\ pPhase = "scope"
    /\ pTip = 0

\* TaskFirstLayer with leaf_offset = 0 for every task (batch_size * i dropped).
TaskFirstLayerNoOffset(i) ==
    LET n == VecLen(pLeaves)
        batch_size == n \div pSub
        leaf_offset == 0
        j == pTask[i].j
        at == (n + leaf_offset + j) \div 2
    IN  /\ pPhase = "scope"
        /\ pTask[i].pc = "first"
        /\ pNodes' = [pNodes EXCEPT ![at] =
                        hash_leaves(pCfg, pLeaves[leaf_offset + j], pLeaves[leaf_offset + j + 1])]
        /\ pOwner' = [pOwner EXCEPT ![at] = i]
        /\ pTask' = [pTask EXCEPT ![i] =
                        IF j + 2 < batch_size THEN [pc |-> "first", j |-> j + 2]
                        ELSE EnterLevel(n \div 4 + ((n \div pSub) \div 4) * i,
                                        (n \div pSub) \div 4, pSub)]
        /\ UNCHANGED <<pCfg, pLeaves, pSub, pPhase, pTip, notParVars>>

\* Task i, one iteration of "for j in (0..batch_size).step_by(2)"; after the
\* last one the task sets batch_size = n / num_subtrees / 4 and
\* start_idx = n / 4 + batch_size * i and tests the while guard.
TaskFirstLayer(i) ==
    LET n == VecLen(pLeaves)
        batch_size == n \div pSub
        leaf_offset == batch_size * i
        j == pTask[i].j
        at == (n + leaf_offset + j) \div 2
    IN  /\ pPhase = "scope"
        /\ pTask[i].pc = "first"
        /\ pNodes' = [pNodes EXCEPT ![at] =
                        hash_leaves(pCfg, pLeaves[leaf_offset + j], pLeaves[leaf_offset + j + 1])]
        /\ pOwner' = [pOwner EXCEPT ![at] = i]
        /\ pTask' = [pTask EXCEPT ![i] =
                        IF j + 2 < batch_size THEN [pc |-> "first", j |-> j + 2]
                        ELSE EnterLevel(n \div 4 + ((n \div pSub) \div 4) * i,
                                        (n \div pSub) \div 4, pSub)]
        /\ UNCHANGED <<pCfg, pLeaves, pSub, pPhase, pTip, notParVars>>

\* Task i reads nodes[k * 2] and nodes[k * 2 + 1] into its hasher.
TaskRead(i) ==
    /\ pPhase = "scope"
    /\ pTask[i].pc = "read"
    /\ pTask' = [pTask EXCEPT ![i] =
                    [pc |-> "write", start_idx |-> pTask[i].start_idx,
                     batch_size |-> pTask[i].batch_size, k |-> pTask[i].k,
                     lhs |-> pNodes[pTask[i].k * 2], rhs |-> pNodes[pTask[i].k * 2 + 1]]]
    /\ UNCHANGED <<pCfg, pLeaves, pSub, pNodes, pOwner, pPhase, pTip, notParVars>>

\* Task i writes nodes[k] = hasher.finalize() and moves to the next k, the
\* next level (start_idx /= 2, batch_size /= 2) or its end.
TaskWrite(i) ==
    LET t == pTask[i] IN
    /\ pPhase = "scope"
    /\ t.pc = "write"
    /\ pNodes' = [pNodes EXCEPT ![t.k] = hash_nodes(t.lhs, t.rhs)]
    /\ pOwner' = [pOwner EXCEPT ![t.k] = i]
    /\ pTask' = [pTask EXCEPT ![i] =
                    IF t.k > t.start_idx
                    THEN [pc |-> "read", start_idx |-> t.start_idx,
                          batch_size |-> t.batch_size, k |-> t.k - 1]
                    ELSE EnterLevel(t.start_idx \div 2, t.batch_size \div 2, pSub)]
    /\ UNCHANGED <<pCfg, pLeaves, pSub, pPhase, pTip, notParVars>>

\* rayon::scope without its join: the tip loop starts once one task has finished.
ScopeJoinEarly ==
    /\ pPhase = "scope"
    /\ \E i \in DOMAIN pTask : pTask[i].pc = "done"
    /\ pPhase' = IF pSub - 1 >= 1 THEN "tip" ELSE "done"
    /\ pTip' = pSub - 1
    /\ UNCHANGED <<pCfg, pLeaves, pSub, pNodes, pOwner, pTask, notParVars>>

\* rayon::scope returns once every spawned task has finished; the tip loop
\* "for i in (1..num_subtrees).rev()" starts at i = num_subtrees - 1.
ScopeJoin ==
    /\ pPhase = "scope"
    /\ \A i \in DOMAIN pTask : pTask[i].pc = "done"
    /\ pPhase' = IF pSub - 1 >= 1 THEN "tip" ELSE "done"
    /\ pTip' = pSub - 1
    /\ UNCHANGED <<pCfg, pLeaves, pSub, pNodes, pOwner, pTask, notParVars>>

\* One iteration of the tip loop.
TipStep ==
    /\ pPhase = "tip"
    /\ pNodes' = [pNodes EXCEPT ![pTip] = hash_nodes(pNodes[pTip * 2], pNodes[pTip * 2 + 1])]
    /\ pOwner' = [pOwner EXCEPT ![pTip] = TipOwner]
    /\ pTip' = pTip - 1
    /\ pPhase' = IF pTip - 1 >= 1 THEN "tip" ELSE "done"
    /\ UNCHANGED <<pCfg, pLeaves, pSub, pTask, notParVars>>

NextPar ==
    \/ \E i \in DOMAIN pTask : TaskFirstLayer(i)
    \/ \E i \in DOMAIN pTask : TaskRead(i)
    \/ \E i \in DOMAIN pTask : TaskWrite(i)
    \/ ScopeJoin
    \/ TipStep

(***************************************************************************)
(* Merkle API actions.                                                     *)
(***************************************************************************)
InitMerkle ==
    /\ \/ /\ kind = "leaves"
          /\ cfg \in Configs
          /\ input \in LeafInputs(cfg)
          /\ matrix = <<>>
       \/ /\ kind = "matrix"
          /\ cfg = "hashed"
          /\ input = EmptyVec
          /\ matrix \in MatrixInputs
    /\ vRow = <<>>
    /\ delegated = FALSE
    /\ built = None
    /\ builds = 0
    /\ provedIdx = 0
    /\ proved = None
    /\ vRoot = DefaultDigest
    /\ vProof = NoProof
    /\ vIdx = 0
    /\ tampered = "none"
    /\ verified = None
    /\ op = "init"

\* MerkleTreeImpl::<C>::new(leaves)
New ==
    /\ kind = "leaves"
    /\ built.tag = "none"
    /\ built' = MerkleTreeImpl_new(cfg, input)
    /\ builds' = IF built'.tag = "Ok" THEN builds + 1 ELSE builds
    /\ op' = "new"
    /\ UNCHANGED <<kind, matrix, vRow, delegated, cfg, input, provedIdx, proved, vRoot, vProof, vIdx,
                   tampered, verified, notMerkleVars>>

\* MatrixMerkleTreeImpl::<D>::from_matrix(&matrix)
FromMatrix ==
    /\ kind = "matrix"
    /\ built.tag = "none"
    /\ built' = from_matrix(matrix)
    /\ input' = IF hash_rows(matrix).tag = "Ok" THEN hash_rows(matrix).row_hashes ELSE input
    /\ builds' = IF built'.tag = "Ok" THEN builds + 1 ELSE builds
    /\ op' = "from_matrix"
    /\ UNCHANGED <<kind, matrix, vRow, delegated, cfg, provedIdx, proved, vRoot, vProof, vIdx,
                   tampered, verified, notMerkleVars>>

\* tree.prove(index); for the row adapter, tree.prove_row(index).
Prove(index) ==
    /\ built.tag = "Ok"
    /\ provedIdx' = index
    /\ proved' = IF kind = "matrix" THEN prove_row(built, index) ELSE prove(built, index)
    /\ vRoot' = DefaultDigest
    /\ vProof' = NoProof
    /\ vIdx' = 0
    /\ tampered' = "none"
    /\ verified' = None
    /\ vRow' = <<>>
    /\ op' = "prove"
    /\ UNCHANGED <<kind, matrix, delegated, cfg, input, built, builds, notMerkleVars>>

\* MerkleTreeImpl::verify(tree.root(), &proof, index) with the proof as proved.
Verify(index) ==
    /\ proved.tag = "Ok"
    /\ verified.tag = "none"
    /\ vRoot' = root(built)
    /\ vProof' = proved.proof
    /\ vIdx' = index
    /\ tampered' = "none"
    /\ verified' = verify(cfg, vRoot', vProof', vIdx')
    /\ op' = "verify"
    /\ UNCHANGED <<kind, matrix, vRow, delegated, cfg, input, built, builds, provedIdx, proved,
                   notMerkleVars>>

\* The proof or root with one component replaced, verified at the proved index.
TamperedArgs ==
    LET p == proved.proof
        r == root(built)
    IN  { [what |-> "leaf", root |-> r, proof |-> [p EXCEPT !.leaf = l]] :
            l \in OtherLeaves(cfg, p.leaf) }
        \cup
        { [what |-> "sibling", root |-> r, proof |-> [p EXCEPT !.sibling = l]] :
            l \in OtherLeaves(cfg, p.sibling) }
        \cup
        UNION { { [what |-> "path", root |-> r, proof |-> [p EXCEPT !.path[k] = d]] :
                    d \in OtherDigests(built, p.path[k]) } : k \in 1..Len(p.path) }
        \cup
        { [what |-> "root", root |-> d, proof |-> p] : d \in OtherDigests(built, r) }

VerifyTampered ==
    /\ proved.tag = "Ok"
    /\ verified.tag = "none"
    /\ \E a \in TamperedArgs :
        /\ vRoot' = a.root
        /\ vProof' = a.proof
        /\ tampered' = a.what
    /\ vIdx' = provedIdx
    /\ verified' = verify(cfg, vRoot', vProof', vIdx')
    /\ op' = "verify"
    /\ UNCHANGED <<kind, matrix, vRow, delegated, cfg, input, built, builds, provedIdx, proved,
                   notMerkleVars>>

\* MatrixMerkleTreeImpl::verify_row(tree.root(), row_idx, &row, &proof)
VerifyRow(row_idx, row) ==
    /\ kind = "matrix"
    /\ proved.tag = "Ok"
    /\ verified.tag = "none"
    /\ vRoot' = root(built)
    /\ vProof' = proved.proof
    /\ vIdx' = row_idx
    /\ vRow' = row
    /\ tampered' = "none"
    /\ verified' = verify_row(vRoot', vIdx', vRow', vProof').res
    /\ delegated' = verify_row(vRoot', vIdx', vRow', vProof').delegated
    /\ op' = "verify_row"
    /\ UNCHANGED <<kind, matrix, cfg, input, built, builds, provedIdx, proved, notMerkleVars>>

NextMerkle ==
    \/ New
    \/ FromMatrix
    \/ \E row_idx \in VerifyIndices(VecLen(input)), row \in RowInputs : VerifyRow(row_idx, row)
    \/ \E index \in ProveIndices(VecLen(input)) : Prove(index)
    \/ \E index \in VerifyIndices(VecLen(input)) : Verify(index)
    \/ VerifyTampered

(***************************************************************************)
(* The prover's collaborators: Matrix, evaluation domains, Trace, Air and  *)
(* ProverChannel.  A matrix is described by its number of rows, the names  *)
(* of its columns in order, and what its entries are.                      *)
(***************************************************************************)
NoMatrix == [rows |-> 0, cols |-> <<>>, form |-> "none"]
NoTree == [built |-> FALSE, of |-> NoMatrix]
NoChallenges == [k |-> 0 - 1, after |-> <<>>]

\* Radix2EvaluationDomain: air.trace_domain() has T points, air.lde_domain()
\* has T * lde_blowup_factor points.
trace_domain(in) == [name |-> "trace", size |-> in.trace.len]
lde_domain(in) == [name |-> "lde", size |-> in.trace.len * in.air.lde_blowup_factor]

\* trace.info()
trace_info(in) == [trace_len |-> in.trace.len, base_width |-> in.trace.base_width]

\* trace.base_columns()
base_columns(in) ==
    [rows |-> in.trace.len,
     cols |-> [j \in 1..in.trace.base_width |-> [part |-> "base", col |-> j]],
     form |-> "trace"]

\* trace.build_extension_columns(&challenges): None, or the extension matrix.
build_extension_columns(in, challenges) ==
    IF in.trace.ext_width = 0 THEN [some |-> FALSE, m |-> NoMatrix]
    ELSE [some |-> TRUE,
          m |-> [rows |-> in.trace.len,
                 cols |-> [j \in 1..in.trace.ext_width |-> [part |-> "extension", col |-> j]],
                 form |-> "trace"]]

\* Matrix::interpolate_columns(domain): the coefficients of each column.
interpolate_columns(m, domain) == [rows |-> m.rows, cols |-> m.cols, form |-> "coeffs"]

\* Matrix::evaluate(domain): each column's polynomial on the domain.
evaluate(polys, domain) == [rows |-> domain.size, cols |-> polys.cols, form |-> domain.name]

\* Matrix::append(other): other's columns after self's.
append(m, other) == [m EXCEPT !.cols = m.cols \o other.cols]

\* Matrix::commit_to_rows(): the Merkle tree over the row hashes.
commit_to_rows(m) == [built |-> TRUE, of |-> m]

\* MerkleTree::root() of such a tree.
tree_root(tree) == [root_of |-> tree.of]

\* ProverChannel::new(&air): the transcript starts with the public inputs.
channel_new(in) == << [event |-> "public_inputs"] >>

\* channel.commit_trace(root): the root is appended to the transcript.
commit_trace(channel, rt) == Append(channel, [event |-> "absorb", root |-> rt])

\* channel.get_challenges(k): k field elements, a function of the transcript so
\* far; the draw is itself part of the transcript.
get_challenges(channel, k) == [k |-> k, after |-> channel]
channel_after_draw(channel, k) == Append(channel, [event |-> "draw", k |-> k])

(***************************************************************************)
(* Prover: build_trace_commitment, evaluate_constraints,                   *)
(* build_constraint_commitment, generate_quotients.                        *)
(***************************************************************************)
\* build_trace_commitment with the polynomials evaluated over the trace domain.
build_trace_commitment_unextended(trace, t_domain, l_domain) ==
    LET trace_polys == interpolate_columns(trace, t_domain)
        trace_lde == evaluate(trace_polys, t_domain)
        merkle_tree == commit_to_rows(trace_lde)
    IN [lde |-> trace_lde, polys |-> trace_polys, tree |-> merkle_tree]

\* Return value (lde, polys, merkle_tree).
build_trace_commitment(trace, t_domain, l_domain) ==
    LET trace_polys == interpolate_columns(trace, t_domain)
        trace_lde == evaluate(trace_polys, l_domain)
        merkle_tree == commit_to_rows(trace_lde)
    IN [lde |-> trace_lde, polys |-> trace_polys, tree |-> merkle_tree]

\* One column per constraint: constraint.evaluate_symbolic(challenges,
\* trace_step, trace_lde), with trace_step = self.options().blowup_factor.
evaluate_constraints(options, challenges, constraint_kind, count, trace_lde) ==
    LET trace_step == options.blowup_factor IN
    [rows |-> trace_lde.rows,
     cols |-> [j \in 1..count |->
                [constraint |-> constraint_kind, idx |-> j, challenges |-> challenges,
                 trace_step |-> trace_step, read |-> trace_lde.cols, times |-> "none"]],
     form |-> "lde"]

\* Every column of all_evaluations multiplied pointwise by the divisor.
generate_quotients(all_evaluations, divisor) ==
    [all_evaluations EXCEPT
        !.cols = [j \in 1..Len(all_evaluations.cols) |->
                    [all_evaluations.cols[j] EXCEPT !.times = divisor]]]

\* Matrix::join of the three quotient matrices, sum_columns, interpolation
\* over the LDE domain and the row commitment of the sum.
build_constraint_commitment(boundary_evals, transition_evals, terminal_evals, in) ==
    LET all_quotients ==
            [rows |-> boundary_evals.rows,
             cols |-> generate_quotients(boundary_evals, "boundary_divisor").cols
                        \o generate_quotients(transition_evals, "transition_divisor").cols
                        \o generate_quotients(terminal_evals, "terminal_divisor").cols,
             form |-> "lde"]
        eval_matrix == [rows |-> all_quotients.rows,
                        cols |-> << [sum_of |-> all_quotients.cols] >>,
                        form |-> "lde"]
        poly_matrix == interpolate_columns(eval_matrix, lde_domain(in))
        merkle_tree == commit_to_rows(eval_matrix)
    IN [lde |-> eval_matrix, poly |-> poly_matrix, tree |-> merkle_tree]

(***************************************************************************)
(* Prover::generate_proof, statement by statement.                         *)
(***************************************************************************)
Call(name, args) == [op |-> name, args |-> args]

NoLocals ==
    [options |-> [num_queries |-> 0, blowup_factor |-> 0],
     trace_info |-> [trace_len |-> 0, base_width |-> 0],
     base_trace_lde_tree |-> NoTree,
     challenges |-> NoChallenges,
     trace_lde |-> NoMatrix,
     trace_polys |-> NoMatrix,
     extension_matrix |-> NoMatrix,
     extension |-> [lde |-> NoMatrix, polys |-> NoMatrix, tree |-> NoTree],
     extension_trace_tree |-> NoTree,
     boundary_constraint_evals |-> NoMatrix,
     transition_constraint_evals |-> NoMatrix,
     terminal_constraint_evals |-> NoMatrix,
     composition |-> [lde |-> NoMatrix, poly |-> NoMatrix, tree |-> NoTree]]

GIdle ==
    /\ gIn = [options |-> [num_queries |-> 0, blowup_factor |-> 0]]
    /\ gPc = "idle"
    /\ gLoc = NoLocals
    /\ gChannel = <<>>
    /\ gCalls = <<>>
    /\ gStages = <<>>
    /\ gResult = None

\* generate_proof is compiled under the debug or the release profile (with or
\* without debug_assertions); assert! is kept under both.
\* The AIR is an implementation of the Air trait chosen by the caller: its LDE
\* blowup factor is the options' or its own, its constraint-evaluation blowup
\* factor lies below, at or above the LDE blowup factor.
ProverInputs ==
    { [profile |-> pr,
       options |-> [num_queries |-> q, blowup_factor |-> b],
       trace |-> [len |-> 2 ^ t, base_width |-> w, ext_width |-> x],
       air |-> [lde_blowup_factor |-> l, ce_blowup_factor |-> ce, num_challenges |-> k,
                boundary |-> nb, transition |-> nt, terminal |-> nz]] :
        pr \in {"debug", "release"},
        q \in {3}, b \in {2 ^ e : e \in 1..MaxBlowupLog},
        t \in 1..MaxTraceLog, w \in 1..MaxWidth, x \in 0..MaxWidth,
        l \in {2 ^ e : e \in 1..MaxBlowupLog}, ce \in {1, 2, 4, 8},
        k \in 0..MaxChallenges,
        nb \in 1..MaxConstraints, nt \in 1..MaxConstraints, nz \in {1} }

InitProver ==
    /\ gIn \in ProverInputs
    /\ gPc = "entry"
    /\ gLoc = NoLocals
    /\ gChannel = <<>>
    /\ gCalls = <<>>
    /\ gStages = <<>>
    /\ gResult = None

\* Lines 167-177 with the assertion written ce_blowup_factor < lde_blowup_factor.
GInitStrict ==
    /\ gPc = "entry"
    /\ gLoc' = [gLoc EXCEPT !.options = gIn.options, !.trace_info = trace_info(gIn)]
    /\ gChannel' = channel_new(gIn)
    /\ gStages' = Append(gStages, "Init")
    /\ gCalls' = Append(gCalls, Call("ProverChannel::new", <<>>))
    /\ IF gIn.air.ce_blowup_factor < gIn.air.lde_blowup_factor
       THEN gPc' = "base_commitment" /\ gResult' = gResult
       ELSE gPc' = "panicked" /\ gResult' = [tag |-> "panic", at |-> "blowup assertion"]
    /\ UNCHANGED <<gIn, notProverVars>>

\* Lines 167-177: options, trace_info, the AIR and the channel are set up and
\* the blowup factors are compared; assert! panics when the test fails.
GInit ==
    /\ gPc = "entry"
    /\ gLoc' = [gLoc EXCEPT !.options = gIn.options, !.trace_info = trace_info(gIn)]
    /\ gChannel' = channel_new(gIn)
    /\ gStages' = Append(gStages, "Init")
    /\ gCalls' = Append(gCalls, Call("ProverChannel::new", <<>>))
    /\ IF gIn.air.ce_blowup_factor <= gIn.air.lde_blowup_factor
       THEN gPc' = "base_commitment" /\ gResult' = gResult
       ELSE gPc' = "panicked" /\ gResult' = [tag |-> "panic", at |-> "blowup assertion"]
    /\ UNCHANGED <<gIn, notProverVars>>

\* Lines 179-180: the base trace commitment.
GBuildBase ==
    LET r == build_trace_commitment(base_columns(gIn), trace_domain(gIn), lde_domain(gIn)) IN
    /\ gPc = "base_commitment"
    /\ gLoc' = [gLoc EXCEPT !.trace_lde = r.lde, !.trace_polys = r.polys,
                            !.base_trace_lde_tree = r.tree]
    /\ gStages' = Append(gStages, "BaseTraceCommitment")
    /\ gCalls' = Append(gCalls, Call("build_trace_commitment", <<"base", r.tree>>))
    /\ gPc' = "absorb_base"
    /\ UNCHANGED <<gIn, gChannel, gResult, notProverVars>>

\* Line 182: channel.commit_trace(base_trace_lde_tree.root()).
GAbsorbBase ==
    /\ gPc = "absorb_base"
    /\ gChannel' = commit_trace(gChannel, tree_root(gLoc.base_trace_lde_tree))
    /\ gCalls' = Append(gCalls, Call("commit_trace", <<tree_root(gLoc.base_trace_lde_tree)>>))
    /\ gPc' = "challenges"
    /\ UNCHANGED <<gIn, gLoc, gStages, gResult, notProverVars>>

\* Lines 184-191 with the commented-out assignment num_challenges = 20 in force.
GChallengesTwenty ==
    LET num_challenges == 20 IN
    /\ gPc = "challenges"
    /\ gLoc' = [gLoc EXCEPT !.challenges = get_challenges(gChannel, num_challenges)]
    /\ gChannel' = channel_after_draw(gChannel, num_challenges)
    /\ gStages' = Append(gStages, "ChallengeDraw")
    /\ gCalls' = Append(gCalls, Call("get_challenges", <<num_challenges>>))
    /\ gPc' = "extension_columns"
    /\ UNCHANGED <<gIn, gResult, notProverVars>>

\* Lines 185-191: num_challenges = air.num_challenges();
\* challenges = channel.get_challenges(num_challenges).
GChallenges ==
    LET num_challenges == gIn.air.num_challenges IN
    /\ gPc = "challenges"
    /\ gLoc' = [gLoc EXCEPT !.challenges = get_challenges(gChannel, num_challenges)]
    /\ gChannel' = channel_after_draw(gChannel, num_challenges)
    /\ gStages' = Append(gStages, "ChallengeDraw")
    /\ gCalls' = Append(gCalls, Call("get_challenges", <<num_challenges>>))
    /\ gPc' = "extension_columns"
    /\ UNCHANGED <<gIn, gResult, notProverVars>>

\* Line 193: if let Some(extension_matrix) = trace.build_extension_columns(&challenges).
GBuildExtensionColumns ==
    LET r == build_extension_columns(gIn, gLoc.challenges) IN
    /\ gPc = "extension_columns"
    /\ gLoc' = [gLoc EXCEPT !.extension_matrix = r.m]
    /\ gCalls' = Append(gCalls, Call("build_extension_columns", <<gLoc.challenges>>))
    /\ gPc' = IF r.some THEN "extension_commitment" ELSE "validate"
    /\ UNCHANGED <<gIn, gChannel, gStages, gResult, notProverVars>>

\* Lines 194-198: the extension trace commitment.
GBuildExtension ==
    LET r == build_trace_commitment(gLoc.extension_matrix, trace_domain(gIn), lde_domain(gIn)) IN
    /\ gPc = "extension_commitment"
    /\ gLoc' = [gLoc EXCEPT !.extension = r]
    /\ gStages' = Append(gStages, "ExtensionPass")
    /\ gCalls' = Append(gCalls, Call("build_trace_commitment", <<"extension", r.tree>>))
    /\ gPc' = "absorb_extension"
    /\ UNCHANGED <<gIn, gChannel, gResult, notProverVars>>

\* Lines 199-203 exchanged with the evaluations: the root is absorbed only
\* after the boundary constraints were evaluated.
GAbsorbExtensionLate ==
    /\ gPc = "absorb_extension"
    /\ gCalls' = gCalls \o
            << Call("evaluate_constraints", <<gLoc.challenges, "boundary">>),
               Call("commit_trace", <<tree_root(gLoc.extension.tree)>>) >>
    /\ gChannel' = commit_trace(gChannel, tree_root(gLoc.extension.tree))
    /\ gPc' = "extension_append"
    /\ UNCHANGED <<gIn, gLoc, gStages, gResult, notProverVars>>

\* Line 199: channel.commit_trace(extension_lde_tree.root()).
GAbsorbExtension ==
    /\ gPc = "absorb_extension"
    /\ gChannel' = commit_trace(gChannel, tree_root(gLoc.extension.tree))
    /\ gCalls' = Append(gCalls, Call("commit_trace", <<tree_root(gLoc.extension.tree)>>))
    /\ gPc' = "extension_append"
    /\ UNCHANGED <<gIn, gLoc, gStages, gResult, notProverVars>>

\* Lines 201-203 without trace_lde.append(extension_lde).
GAppendExtensionPolysOnly ==
    /\ gPc = "extension_append"
    /\ gLoc' = [gLoc EXCEPT !.extension_trace_tree = gLoc.extension.tree,
                            !.trace_polys = append(gLoc.trace_polys, gLoc.extension.polys)]
    /\ gPc' = "validate"
    /\ UNCHANGED <<gIn, gChannel, gCalls, gStages, gResult, notProverVars>>

\* Lines 201-203: the tree is kept, the LDE and polynomial columns are appended.
GAppendExtension ==
    /\ gPc = "extension_append"
    /\ gLoc' = [gLoc EXCEPT !.extension_trace_tree = gLoc.extension.tree,
                            !.trace_lde = append(gLoc.trace_lde, gLoc.extension.lde),
                            !.trace_polys = append(gLoc.trace_polys, gLoc.extension.polys)]
    /\ gPc' = "validate"
    /\ UNCHANGED <<gIn, gChannel, gCalls, gStages, gResult, notProverVars>>

\* Line 207: air.validate(&challenges, &trace_polys.evaluate(air.trace_domain())).
GValidate ==
    /\ gPc = "validate"
    /\ gCalls' = Append(gCalls, Call("validate",
                    <<gLoc.challenges, evaluate(gLoc.trace_polys, trace_domain(gIn))>>))
    /\ gPc' = "boundary"
    /\ UNCHANGED <<gIn, gLoc, gChannel, gStages, gResult, notProverVars>>

\* Lines 209-210.
GEvaluateBoundary ==
    LET e == evaluate_constraints(gLoc.options, gLoc.challenges, "boundary",
                                  gIn.air.boundary, gLoc.trace_lde) IN
    /\ gPc = "boundary"
    /\ gLoc' = [gLoc EXCEPT !.boundary_constraint_evals = e]
    /\ gStages' = Append(gStages, "ConstraintEvaluation")
    /\ gCalls' = Append(gCalls, Call("evaluate_constraints", <<gLoc.challenges, "boundary">>))
    /\ gPc' = "transition"
    /\ UNCHANGED <<gIn, gChannel, gResult, notProverVars>>

\* Lines 211-212.
GEvaluateTransition ==
    LET e == evaluate_constraints(gLoc.options, gLoc.challenges, "transition",
                                  gIn.air.transition, gLoc.trace_lde) IN
    /\ gPc = "transition"
    /\ gLoc' = [gLoc EXCEPT !.transition_constraint_evals = e]
    /\ gCalls' = Append(gCalls, Call("evaluate_constraints", <<gLoc.challenges, "transition">>))
    /\ gPc' = "terminal"
    /\ UNCHANGED <<gIn, gChannel, gStages, gResult, notProverVars>>

\* Lines 213-214.
GEvaluateTerminal ==
    LET e == evaluate_constraints(gLoc.options, gLoc.challenges, "terminal",
                                  gIn.air.terminal, gLoc.trace_lde) IN
    /\ gPc = "terminal"
    /\ gLoc' = [gLoc EXCEPT !.terminal_constraint_evals = e]
    /\ gCalls' = Append(gCalls, Call("evaluate_constraints", <<gLoc.challenges, "terminal">>))
    /\ gPc' = "composition"
    /\ UNCHANGED <<gIn, gChannel, gStages, gResult, notProverVars>>

\* Lines 216-225: the composition commitment; the polynomial's degree is printed.
GBuildComposition ==
    LET r == build_constraint_commitment(gLoc.boundary_constraint_evals,
                gLoc.transition_constraint_evals, gLoc.terminal_constraint_evals, gIn) IN
    /\ gPc = "composition"
    /\ gLoc' = [gLoc EXCEPT !.composition = r]
    /\ gStages' = Append(gStages, "CompositionCommitment")
    /\ gCalls' = Append(gCalls, Call("build_constraint_commitment", <<r.tree>>))
    /\ gPc' = "emit"
    /\ UNCHANGED <<gIn, gChannel, gResult, notProverVars>>

\* Lines 227-231 with the two options fields exchanged.
GEmitFieldsExchanged ==
    /\ gPc = "emit"
    /\ gResult' = [tag |-> "Ok",
                   proof |-> [options |-> [num_queries |-> gLoc.options.blowup_factor,
                                           blowup_factor |-> gLoc.options.num_queries],
                              trace_info |-> gLoc.trace_info,
                              commitments |-> <<>>]]
    /\ gStages' = Append(gStages, "EmitProof")
    /\ gPc' = "returned"
    /\ UNCHANGED <<gIn, gLoc, gChannel, gCalls, notProverVars>>

\* Lines 227-231: Ok(Proof { options, trace_info, commitments: Vec::new() }).
GEmit ==
    /\ gPc = "emit"
    /\ gResult' = [tag |-> "Ok",
                   proof |-> [options |-> gLoc.options,
                              trace_info |-> gLoc.trace_info,
                              commitments |-> <<>>]]
    /\ gStages' = Append(gStages, "EmitProof")
    /\ gPc' = "returned"
    /\ UNCHANGED <<gIn, gLoc, gChannel, gCalls, notProverVars>>

NextProver ==
    \/ GInit
    \/ GBuildBase
    \/ GAbsorbBase
    \/ GChallenges
    \/ GBuildExtensionColumns
    \/ GBuildExtension
    \/ GAbsorbExtension
    \/ GAppendExtension
    \/ GValidate
    \/ GEvaluateBoundary
    \/ GEvaluateTransition
    \/ GEvaluateTerminal
    \/ GBuildComposition
    \/ GEmit

(***************************************************************************)
(* Prover::build_constraint_commitment and generate_quotients on field     *)
(* values.  Self::Fp is the field of FieldOrder elements; a matrix is       *)
(* [rows, cols, form] with every column a sequence of rows field elements.  *)
(***************************************************************************)
FieldOrder == MaxDivisor + 1
FieldMul(a, b) == (a * b) % FieldOrder
FieldAdd(a, b) == (a + b) % FieldOrder

\* MulPowStage::new(library, divisor.len(), 0) and
\* multiplier.encode(command_buffer, &mut evaluations, &divisor, 0): the
\* PolyEngine's mul_pow(column, divisor, shift) with shift 0, over
\* divisor.len() entries, in place.
mul_pow(column, divisor) ==
    [i \in 1..Len(divisor) |-> FieldMul(column[i], divisor[i])]

\* generate_quotients: every column of all_evaluations through mul_pow with the
\* one divisor buffer; the matrix is returned after wait_until_completed.
generate_quotients_values(all_evaluations, divisor) ==
    [all_evaluations EXCEPT
        !.cols = [j \in 1..Len(all_evaluations.cols) |->
                    mul_pow(all_evaluations.cols[j], divisor)]]

\* Matrix::join(vec![a, b, c]): the columns of a, then of b, then of c.
join(ms) ==
    [rows |-> ms[1].rows, cols |-> ms[1].cols \o ms[2].cols \o ms[3].cols, form |-> ms[1].form]

\* Matrix::sum_columns(): one column, at every row the field sum of the row.
RECURSIVE SumRow(_, _, _)
SumRow(cols, r, n) ==
    IF n = 0 THEN 0 ELSE FieldAdd(SumRow(cols, r, n - 1), cols[n][r])

sum_columns(m) ==
    [rows |-> m.rows,
     cols |-> << [r \in 1..m.rows |-> SumRow(m.cols, r, Len(m.cols))] >>,
     form |-> m.form]

NoQuotientLocals ==
    [boundary_divisor |-> <<>>, terminal_divisor |-> <<>>, transition_divisor |-> <<>>,
     boundary_quotients |-> NoMatrix, transition_quotients |-> NoMatrix,
     terminal_quotients |-> NoMatrix,
     all_quotients |-> NoMatrix, eval_matrix |-> NoMatrix, poly_matrix |-> NoMatrix,
     merkle_tree |-> NoTree]

QIdle ==
    /\ qIn = [rows |-> 0]
    /\ qPc = "idle"
    /\ qLoc = NoQuotientLocals

\* The arguments of a call: three evaluation matrices of L rows over the LDE
\* domain, and an AIR whose three divisors are vectors of L nonzero elements.
EvaluationMatrices(L, n) ==
    { [rows |-> L, cols |-> c, form |-> "lde"] : c \in [1..n -> [1..L -> 0..MaxEval]] }

Divisors(L) == [1..L -> 1..MaxDivisor]

QuotientCols ==
    { c \in (1..MaxQuotientCols) \X (1..MaxQuotientCols) \X (1..MaxQuotientCols) :
        c[1] + c[2] + c[3] <= MaxQuotientCols + 2 }

InitQuotient ==
    /\ \E L \in { 2 ^ e : e \in 1..MaxQuotientLog } : \E n \in QuotientCols :
       \E eb \in EvaluationMatrices(L, n[1]) :
       \E et \in EvaluationMatrices(L, n[2]) :
       \E ez \in EvaluationMatrices(L, n[3]) :
       \E db \in Divisors(L) : \E dt \in Divisors(L) : \E dz \in Divisors(L) :
            qIn = [rows |-> L,
                   boundary_constraint_evals |-> eb,
                   transition_constraint_evals |-> et,
                   terminal_constraint_evals |-> ez,
                   air |-> [boundary_constraint_divisor |-> db,
                            transition_constraint_divisor |-> dt,
                            terminal_constraint_divisor |-> dz]]
    /\ qPc = "divisors"
    /\ qLoc = NoQuotientLocals

\* Lines 112-114: the three divisors, as the AIR returns them.
QDivisors ==
    /\ qPc = "divisors"
    /\ qLoc' = [qLoc EXCEPT !.boundary_divisor = qIn.air.boundary_constraint_divisor,
                            !.terminal_divisor = qIn.air.terminal_constraint_divisor,
                            !.transition_divisor = qIn.air.transition_constraint_divisor]
    /\ qPc' = "boundary"
    /\ UNCHANGED <<qIn, notQuotientVars>>

\* Line 117.
QGenerateBoundary ==
    /\ qPc = "boundary"
    /\ qLoc' = [qLoc EXCEPT !.boundary_quotients =
                    generate_quotients_values(qIn.boundary_constraint_evals,
                                              qLoc.boundary_divisor)]
    /\ qPc' = "transition"
    /\ UNCHANGED <<qIn, notQuotientVars>>

\* Line 118 with the boundary divisor handed to the second call.
QGenerateTransitionBoundaryDivisor ==
    /\ qPc = "transition"
    /\ qLoc' = [qLoc EXCEPT !.transition_quotients =
                    generate_quotients_values(qIn.transition_constraint_evals,
                                              qLoc.boundary_divisor)]
    /\ qPc' = "terminal"
    /\ UNCHANGED <<qIn, notQuotientVars>>

\* Line 118.
QGenerateTransition ==
    /\ qPc = "transition"
    /\ qLoc' = [qLoc EXCEPT !.transition_quotients =
                    generate_quotients_values(qIn.transition_constraint_evals,
                                              qLoc.transition_divisor)]
    /\ qPc' = "terminal"
    /\ UNCHANGED <<qIn, notQuotientVars>>

\* Line 119.
QGenerateTerminal ==
    /\ qPc = "terminal"
    /\ qLoc' = [qLoc EXCEPT !.terminal_quotients =
                    generate_quotients_values(qIn.terminal_constraint_evals,
                                              qLoc.terminal_divisor)]
    /\ qPc' = "join"
    /\ UNCHANGED <<qIn, notQuotientVars>>

\* Lines 116-120.
QJoin ==
    /\ qPc = "join"
    /\ qLoc' = [qLoc EXCEPT !.all_quotients =
                    join(<<qLoc.boundary_quotients, qLoc.transition_quotients,
                           qLoc.terminal_quotients>>)]
    /\ qPc' = "sum"
    /\ UNCHANGED <<qIn, notQuotientVars>>

\* Line 122.
QSumColumns ==
    /\ qPc = "sum"
    /\ qLoc' = [qLoc EXCEPT !.eval_matrix = sum_columns(qLoc.all_quotients)]
    /\ qPc' = "interpolate"
    /\ UNCHANGED <<qIn, notQuotientVars>>

\* Line 123: the coefficients of the column over the LDE domain.
QInterpolate ==
    /\ qPc = "interpolate"
    /\ qLoc' = [qLoc EXCEPT !.poly_matrix =
                    interpolate_columns(qLoc.eval_matrix,
                                        [name |-> "lde", size |-> qIn.rows])]
    /\ qPc' = "commit"
    /\ UNCHANGED <<qIn, notQuotientVars>>

\* Lines 124-126: the row commitment; (eval_matrix, poly_matrix, merkle_tree)
\* is returned.
QCommitToRows ==
    /\ qPc = "commit"
    /\ qLoc' = [qLoc EXCEPT !.merkle_tree = commit_to_rows(qLoc.eval_matrix)]
    /\ qPc' = "returned"
    /\ UNCHANGED <<qIn, notQuotientVars>>

NextQuotient ==
    \/ QDivisors
    \/ QGenerateBoundary
    \/ QGenerateTransition
    \/ QGenerateTerminal
    \/ QJoin
    \/ QSumColumns
    \/ QInterpolate
    \/ QCommitToRows

MIdle ==
    /\ kind = "leaves"
    /\ cfg = "raw"
    /\ input = EmptyVec
    /\ matrix = <<>>
    /\ vRow = <<>>
    /\ delegated = FALSE
    /\ built = None
    /\ builds = 0
    /\ provedIdx = 0
    /\ proved = None
    /\ vRoot = DefaultDigest
    /\ vProof = NoProof
    /\ vIdx = 0
    /\ tampered = "none"
    /\ verified = None
    /\ op = "init"

\* The Merkle API: new / from_matrix, prove, verify, verify_row.
Init == InitMerkle /\ PIdle /\ GIdle /\ QIdle

Next == NextMerkle

Spec == Init /\ [][Next]_vars

\* The parallel node build, every interleaving of its tasks.
ParInit == MIdle /\ InitPar /\ GIdle /\ QIdle

SpecPar == ParInit /\ [][NextPar]_vars

\* One call of generate_proof.  The function is straight-line code on one
\* thread and every statement returns or panics, so a call that can take a step
\* takes it.
ProverInit == MIdle /\ PIdle /\ InitProver /\ QIdle

SpecProver == ProverInit /\ [][NextProver]_vars /\ WF_vars(NextProver)

\* Runs of either kind: a parallel node build under any schedule of its tasks,
\* or a call of generate_proof.
RunsInit == ParInit \/ ProverInit

NextRuns == NextPar \/ NextProver

SpecRuns == RunsInit /\ [][NextRuns]_vars

\* One call of build_constraint_commitment on field values.
QuotientInit == MIdle /\ PIdle /\ GIdle /\ InitQuotient

SpecQuotient == QuotientInit /\ [][NextQuotient]_vars

(***************************************************************************)
(* Claims about the Merkle API, checked under Spec.                        *)
(***************************************************************************)
NumLeaves == VecLen(input)
PowersOfTwo == { 2 ^ k : k \in 0..MaxLeaves }
Log2(n) == CHOOSE k \in 0..MaxLeaves : 2 ^ k = n
Bit(x, b) == (x \div (2 ^ b)) % 2

\* C1. Merkle soundness: a tree built by new from a power-of-two number (>= 2)
\* of leaves verifies prove(i) against root() at index i, for every leaf i.
C1_Soundness ==
    (op = "verify" /\ tampered = "none" /\ vIdx = provedIdx) => verified.tag = "Ok"

C1_Witness ==
    /\ op = "verify" /\ tampered = "none" /\ vIdx = provedIdx
    /\ NumLeaves = 8 /\ Len(vProof.path) = 2 /\ verified.tag = "Ok"

\* C2. Tamper rejection: with exactly one of proof.leaf, proof.sibling, one
\* path[j] or the root replaced by a different value, verify at the proved index
\* returns InvalidProof.
C2_TamperRejected ==
    (op = "verify" /\ tampered # "none") => verified.tag = "InvalidProof"

C2_Witness ==
    /\ op = "verify" /\ tampered = "path" /\ NumLeaves = 8
    /\ vRoot = root(built) /\ verified.tag = "InvalidProof"

\* C3 as claimed. Index misbinding: the proof of leaf i verified at any other
\* index j returns InvalidProof.
C3_MisbindingRejected ==
    (op = "verify" /\ tampered = "none" /\ vIdx # provedIdx) => verified.tag = "InvalidProof"

\* The two subtrees that meet at level b above leaf i are different.
SiblingsDiffer(tree, i, b) ==
    LET a == (i + VecLen(tree.nodes)) \div (2 ^ b) IN
    IF b = 0 THEN tree.leaves[i] # tree.leaves[IF i % 2 = 0 THEN i + 1 ELSE i - 1]
    ELSE tree.nodes[a] # tree.nodes[IF a % 2 = 0 THEN a + 1 ELSE a - 1]

\* C3 as amended. The proof of leaf i verified at index j returns InvalidProof
\* exactly when j and i differ in a bit b < log2(n) at which the two sibling
\* subtrees on i's path are different; it returns Ok for every other j (j equal
\* to i in the low log2(n) bits, or differing only where the siblings are equal).
C3_MisbindingAmended ==
    (op = "verify" /\ tampered = "none") =>
        (verified.tag = "InvalidProof" <=>
            \E b \in 0..(Log2(NumLeaves) - 1) :
                Bit(vIdx, b) # Bit(provedIdx, b) /\ SiblingsDiffer(built, provedIdx, b))

C3_Witness ==
    /\ op = "verify" /\ tampered = "none" /\ vIdx # provedIdx
    /\ vIdx < NumLeaves /\ NumLeaves = 8 /\ verified.tag = "InvalidProof"

\* C4. Construction errors: new returns TooFewLeaves{expected: 2, actual: n}
\* exactly when n < 2, NumberOfLeavesNotPowerOfTwo{n} exactly when n >= 2 is not
\* a power of two, and a tree exactly when n >= 2 is a power of two; on either
\* error build_merkle_nodes is not called and no node array exists.
C4_ConstructionErrors ==
    op # "init" /\ kind = "leaves" =>
        /\ built.tag \in {"Ok", "TooFewLeaves", "NumberOfLeavesNotPowerOfTwo"}
        /\ built.tag = "TooFewLeaves" <=> NumLeaves < 2
        /\ built.tag = "TooFewLeaves" => built.expected = 2 /\ built.actual = NumLeaves
        /\ built.tag = "NumberOfLeavesNotPowerOfTwo" <=>
                (NumLeaves >= 2 /\ NumLeaves \notin PowersOfTwo)
        /\ built.tag = "NumberOfLeavesNotPowerOfTwo" => built.n = NumLeaves
        /\ built.tag = "Ok" <=> (NumLeaves >= 2 /\ NumLeaves \in PowersOfTwo)
        /\ built.tag = "Ok" => builds = 1 /\ built.leaves = input
        /\ built.tag # "Ok" => builds = 0 /\ "nodes" \notin DOMAIN built

C4_Witness ==
    op = "new" /\ built.tag = "NumberOfLeavesNotPowerOfTwo" /\ built.n = 6 /\ builds = 0

\* C5. prove(i) returns LeafIndexOutOfBounds{i, n} if and only if i >= n and a
\* proof for every i < n; the call leaves the tree (nodes, leaves, hence root())
\* as it was.
C5_ProveBounds ==
    [][op' = "prove" =>
        /\ built' = built
        /\ root(built') = root(built)
        /\ proved'.tag = "LeafIndexOutOfBounds" <=> provedIdx' >= NumLeaves
        /\ proved'.tag = "LeafIndexOutOfBounds" =>
                proved'.i = provedIdx' /\ proved'.n = NumLeaves
        /\ provedIdx' < NumLeaves => proved'.tag = "Ok"]_vars

C5_Witness ==
    /\ op = "prove" /\ NumLeaves = 8 /\ provedIdx = 8
    /\ proved.tag = "LeafIndexOutOfBounds" /\ proved.i = 8 /\ proved.n = 8

\* C7. Matrix row round trip and leaf binding: for a matrix with a power-of-two
\* number (>= 2) of rows, verify_row(root, r, m.row(r), prove_row(r)) is Ok; with
\* any other row and the same root, index and proof it is InvalidProof, decided
\* by the row hash alone, verify not being called.
C7_RowRoundTrip ==
    (op = "verify_row" /\ vIdx = provedIdx) =>
        /\ vRow = read_row(matrix, provedIdx) => verified.tag = "Ok" /\ delegated
        /\ vRow # read_row(matrix, provedIdx) => verified.tag = "InvalidProof" /\ ~delegated

C7_Witness ==
    /\ op = "verify_row" /\ vIdx = provedIdx /\ num_rows(matrix) = 4 /\ num_cols(matrix) = 2
    /\ Len(vRow) = 2 /\ vRow # read_row(matrix, provedIdx)
    /\ \E i \in 0..3 : i # provedIdx /\ vRow = read_row(matrix, i)
    /\ verified.tag = "InvalidProof" /\ ~delegated

(***************************************************************************)
(* Claims about the parallel node build, checked under SpecPar.            *)
(***************************************************************************)
\* C6. Parallel build equals sequential build: for every power-of-two n >= 2,
\* every num_subtrees = min(p, n / 2) and every interleaving of the tasks, the
\* returned array is the sequential build's: nodes[n/2 + i] =
\* hash_leaves(leaves[2i], leaves[2i+1]), nodes[i] = H(nodes[2i] || nodes[2i+1])
\* for i in [1, n/2), nodes[0] the default digest; every index in [1, n) has
\* been written.
C6_ParallelEqualsSequential ==
    pPhase = "done" =>
        LET n == VecLen(pLeaves) IN
        /\ pNodes = build_merkle_nodes_seq(pCfg, pLeaves)
        /\ \A i \in 0..(n \div 2 - 1) :
              pNodes[n \div 2 + i] = hash_leaves(pCfg, pLeaves[2 * i], pLeaves[2 * i + 1])
        /\ \A i \in 1..(n \div 2 - 1) :
              pNodes[i] = hash_nodes(pNodes[2 * i], pNodes[2 * i + 1])
        /\ pNodes[0] = DefaultDigest /\ pOwner[0] = NoOwner
        /\ \A x \in 1..(n - 1) : pOwner[x] # NoOwner

C6_Witness ==
    /\ pPhase = "done" /\ VecLen(pLeaves) = 8 /\ pSub = 2
    /\ pOwner[1] = TipOwner /\ pOwner[2] = 0 /\ pOwner[3] = 1
    /\ pNodes = build_merkle_nodes_seq(pCfg, pLeaves)

(***************************************************************************)
(* Claims about generate_proof, checked under SpecProver.                  *)
(***************************************************************************)
StagesWithExtension ==
    << "Init", "BaseTraceCommitment", "ChallengeDraw", "ExtensionPass",
       "ConstraintEvaluation", "CompositionCommitment", "EmitProof" >>

StagesWithoutExtension ==
    << "Init", "BaseTraceCommitment", "ChallengeDraw",
       "ConstraintEvaluation", "CompositionCommitment", "EmitProof" >>

IsPrefix(s, t) == Len(s) <= Len(t) /\ s = SubSeq(t, 1, Len(s))

PassesBlowupCheck == gIn.air.ce_blowup_factor <= gIn.air.lde_blowup_factor

ReturnsColumns == gIn.trace.ext_width > 0

ExpectedStages == IF ReturnsColumns THEN StagesWithExtension ELSE StagesWithoutExtension

ReturnedProof ==
    /\ gResult.tag = "Ok"
    /\ gResult.proof.options = gIn.options
    /\ gResult.proof.trace_info = trace_info(gIn)
    /\ gStages = ExpectedStages

\* The stages a run is in or has passed are the first stages of the pipeline
\* in its order, none twice; once the challenges were used to ask for the
\* extension columns, the extension pass is in the list iff there are columns.
StagesInOrder ==
    /\ IsPrefix(gStages, StagesWithExtension) \/ IsPrefix(gStages, StagesWithoutExtension)
    /\ Len(gStages) >= 4 => IsPrefix(gStages, ExpectedStages)
    /\ gResult.tag = "Ok" => ReturnedProof

\* C8. Stage progression: every run of generate_proof that passes the blowup
\* check goes through Init, base trace commitment, challenge draw, optional
\* extension pass, constraint evaluation, composition commitment, emit Proof in
\* exactly that order, each at most once, none skipped but the optional one,
\* and eventually returns Ok(Proof) with the prover's options and trace.info().
C8_StageProgression ==
    /\ [](PassesBlowupCheck => StagesInOrder)
    /\ (gPc = "base_commitment") ~> ReturnedProof

C8_Witness ==
    /\ PassesBlowupCheck /\ ReturnsColumns
    /\ gPc = "returned" /\ gStages = StagesWithExtension
    /\ gResult.tag = "Ok" /\ gResult.proof.options.blowup_factor # gIn.air.lde_blowup_factor

\* The channel events after ProverChannel::new, oldest first.
ChannelEvents == IF gChannel = <<>> THEN <<>> ELSE Tail(gChannel)

BaseRoot ==
    tree_root(commit_to_rows(evaluate(interpolate_columns(base_columns(gIn), trace_domain(gIn)),
                                      lde_domain(gIn))))

ExtensionRoot ==
    tree_root(commit_to_rows(
        evaluate(interpolate_columns(build_extension_columns(gIn, gLoc.challenges).m,
                                     trace_domain(gIn)),
                 lde_domain(gIn))))

ExpectedEvents ==
    << [event |-> "absorb", root |-> BaseRoot],
       [event |-> "draw", k |-> gIn.air.num_challenges] >>
    \o (IF ReturnsColumns THEN << [event |-> "absorb", root |-> ExtensionRoot] >> ELSE <<>>)

\* The vector get_challenges(k) returns after the base root alone was absorbed.
TheChallenges ==
    [k |-> gIn.air.num_challenges,
     after |-> << [event |-> "public_inputs"], [event |-> "absorb", root |-> BaseRoot] >>]

TakesChallenges(call) == call.op \in {"build_extension_columns", "evaluate_constraints"}

\* C9. Transcript order: the channel events are absorb(base trace root), then
\* exactly one get_challenges(k) with k = air.num_challenges(), then
\* absorb(extension root) iff build_extension_columns returned columns; no
\* challenge is drawn before the base root is absorbed; the one vector drawn is
\* the one given to build_extension_columns and to all three evaluations.
C9_TranscriptOrder ==
    /\ IsPrefix(ChannelEvents, ExpectedEvents)
    /\ \A i \in 1..Len(gCalls) :
          TakesChallenges(gCalls[i]) => gCalls[i].args[1] = TheChallenges
    /\ gPc \in {"validate", "boundary", "transition", "terminal", "composition",
                "emit", "returned"}
          => ChannelEvents = ExpectedEvents
    /\ gPc = "returned"
          => /\ Cardinality({i \in 1..Len(gCalls) : gCalls[i].op = "build_extension_columns"}) = 1
             /\ Cardinality({i \in 1..Len(gCalls) : gCalls[i].op = "evaluate_constraints"}) = 3

C9_Witness ==
    /\ gPc = "returned" /\ ReturnsColumns /\ gIn.air.num_challenges = 1
    /\ Len(gChannel) = 4 /\ gChannel[3].event = "draw" /\ gChannel[4].event = "absorb"
    /\ gLoc.challenges = TheChallenges

IsExtensionBuild(call) ==
    call.op = "build_trace_commitment" /\ call.args[1] = "extension"

IsAbsorbOf(call, tree) ==
    call.op = "commit_trace" /\ call.args[1] = tree_root(tree)

\* C10. Whenever the extension pass produces a commitment, its root is absorbed
\* into the channel before the first constraint is evaluated: no constraint
\* evaluation happens between building the extension tree and absorbing its
\* root.
C10_ExtensionAbsorbedFirst ==
    \A i \in 1..Len(gCalls) : \A j \in 1..Len(gCalls) :
        (i < j /\ IsExtensionBuild(gCalls[i]) /\ gCalls[j].op = "evaluate_constraints")
            => /\ \E m \in (i + 1)..(j - 1) : IsAbsorbOf(gCalls[m], gCalls[i].args[2])
               /\ \E e \in 1..Len(gChannel) :
                     gChannel[e] = [event |-> "absorb", root |-> tree_root(gCalls[i].args[2])]

C10_Witness ==
    /\ gPc = "transition" /\ gLoc.extension.tree.built
    /\ \E i \in 1..Len(gCalls) : IsExtensionBuild(gCalls[i])
    /\ gCalls[Len(gCalls)].op = "evaluate_constraints"
    /\ gChannel[Len(gChannel)] = [event |-> "absorb", root |-> tree_root(gLoc.extension.tree)]

CompositionRoot == tree_root(gLoc.composition.tree)

AbsorbedRoots ==
    [i \in 1..Cardinality({e \in 1..Len(gChannel) : gChannel[e].event = "absorb"}) |->
        LET at == CHOOSE e \in 1..Len(gChannel) :
                    /\ gChannel[e].event = "absorb"
                    /\ Cardinality({f \in 1..e : gChannel[f].event = "absorb"}) = i
        IN gChannel[at].root]

\* C11. Composition commitment is absorbed: in every successful run the root of
\* the tree over the one-column composition matrix is absorbed into the channel
\* before the Proof is emitted; the transcript then holds two absorbed roots
\* without extension columns and three with them.
C11_CompositionAbsorbed ==
    gResult.tag = "Ok" =>
        /\ Len(gLoc.composition.lde.cols) = 1
        /\ Len(AbsorbedRoots) = (IF ReturnsColumns THEN 3 ELSE 2)
        /\ AbsorbedRoots[Len(AbsorbedRoots)] = CompositionRoot

\* C12. The Proof returned carries the run's commitments: the sequence is not
\* empty and its first root is the Merkle root of the base trace LDE rows, the
\* root absorbed first into the channel.
C12_ProofCarriesCommitments ==
    gResult.tag = "Ok" =>
        /\ Len(gResult.proof.commitments) >= 1
        /\ gResult.proof.commitments[1] = BaseRoot
        /\ gResult.proof.commitments[1] = AbsorbedRoots[1]

\* What a run has done besides setting up options, trace_info, AIR and channel.
NothingStarted ==
    /\ gCalls = << Call("ProverChannel::new", <<>>) >>
    /\ gChannel = channel_new(gIn)
    /\ gStages = << "Init" >>
    /\ gLoc.trace_polys = NoMatrix /\ gLoc.trace_lde = NoMatrix
    /\ ~gLoc.base_trace_lde_tree.built
    /\ gLoc.challenges = NoChallenges

\* C13. Blowup-ordering check: with ce_blowup_factor > lde_blowup_factor the run
\* fails fatally before the base trace commitment: no trace is interpolated, no
\* tree built, no root absorbed, no challenge drawn, no Proof returned; with
\* ce_blowup_factor <= lde_blowup_factor the check never fails.
C13_BlowupOrderingCheck ==
    /\ (~PassesBlowupCheck /\ gPc # "entry") =>
            /\ gPc = "panicked" /\ gResult.tag = "panic"
            /\ NothingStarted
    /\ PassesBlowupCheck => (gPc # "panicked" /\ gResult.tag # "panic")

C13_Witness ==
    /\ gIn.air.ce_blowup_factor = 4 /\ gIn.air.lde_blowup_factor = 2
    /\ gPc = "panicked" /\ gResult.tag = "panic" /\ NothingStarted

\* C14. Prover failures surface as ProvingError: every fatal failure of a stage
\* is reported to the caller as Err(ProvingError); a blowup-ordering violation
\* is a panic only in debug builds and a fatal ProvingError in release builds.
C14_FailuresSurfaceAsProvingError ==
    /\ gResult.tag = "panic" => gIn.profile = "debug"
    /\ (~PassesBlowupCheck /\ gPc # "entry") =>
            IF gIn.profile = "debug" THEN gResult.tag = "panic"
            ELSE gResult.tag = "Err" /\ gResult.error = "Fail"

\* What a run on the inputs gIn absorbs, draws and returns, from gIn alone.
RootsOf(in) ==
    LET base == build_trace_commitment(base_columns(in), trace_domain(in), lde_domain(in))
        drawn == get_challenges(commit_trace(channel_new(in), tree_root(base.tree)),
                                in.air.num_challenges)
        columns == build_extension_columns(in, drawn)
    IN  << tree_root(base.tree) >>
        \o (IF columns.some
            THEN << tree_root(build_trace_commitment(columns.m, trace_domain(in),
                                                     lde_domain(in)).tree) >>
            ELSE <<>>)

ChallengesOf(in) ==
    get_challenges(commit_trace(channel_new(in), RootsOf(in)[1]), in.air.num_challenges)

ProofOf(in) == [options |-> in.options, trace_info |-> trace_info(in), commitments |-> <<>>]

TraceLen == gIn.trace.len
LdeLen == gIn.trace.len * gIn.air.lde_blowup_factor

\* The matrices handed to air.validate so far.
ValidatedMatrices == { gCalls[i].args[2] : i \in {j \in 1..Len(gCalls) : gCalls[j].op = "validate"} }

\* The matrices of a run that live on the LDE domain: the trace LDE, the
\* extension LDE, the constraint evaluations, the quotients, the composition
\* column and its polynomial.
LdeMatrices ==
    { gLoc.trace_lde, gLoc.extension.lde,
      gLoc.boundary_constraint_evals, gLoc.transition_constraint_evals,
      gLoc.terminal_constraint_evals,
      generate_quotients(gLoc.boundary_constraint_evals, "boundary_divisor"),
      generate_quotients(gLoc.transition_constraint_evals, "transition_divisor"),
      generate_quotients(gLoc.terminal_constraint_evals, "terminal_divisor"),
      gLoc.composition.lde, gLoc.composition.poly } \ {NoMatrix}

\* The matrices of a run that live on the trace domain: the trace polynomials,
\* the extension columns and their polynomials, the matrix handed to validate.
TraceMatrices ==
    ({ gLoc.trace_polys, gLoc.extension_matrix, gLoc.extension.polys }
        \cup ValidatedMatrices) \ {NoMatrix}

\* C16 as claimed. Row-count invariant: every matrix generate_proof produces or
\* consumes from the base trace commitment on (trace polynomials, trace LDE,
\* extension columns and their LDE, the matrix handed to validate, the three
\* evaluation matrices, the quotients, the composition column and its
\* polynomial) has L = T * lde_blowup rows.
C16_AllRowsL ==
    \A m \in LdeMatrices \cup TraceMatrices : m.rows = LdeLen

\* C16 as amended. The trace LDE, the extension LDE, the three evaluation
\* matrices, the quotients, the composition column and its polynomial have
\* L = T * lde_blowup rows; the trace polynomials, the extension columns, their
\* polynomials and the matrix handed to validate have T rows.
C16_RowCounts ==
    /\ \A m \in LdeMatrices : m.rows = LdeLen
    /\ \A m \in TraceMatrices : m.rows = TraceLen

C16_Witness ==
    /\ gPc = "returned" /\ ReturnsColumns
    /\ TraceLen = 4 /\ LdeLen = 16
    /\ Cardinality(LdeMatrices) >= 9 /\ Cardinality(TraceMatrices) >= 4
    /\ gLoc.trace_polys.rows = 4 /\ gLoc.trace_lde.rows = 16
    /\ gLoc.composition.poly.rows = 16

\* x XOR 1 and x >> s.
XorOne(x) == x + 1 - 2 * (x % 2)
Shr(x, sh) == x \div (2 ^ sh)

\* C17. Proof shape: for a tree of n = 2^k leaves and i < n, prove(i) returns
\* leaf = leaves[i], sibling = leaves[i XOR 1] and
\* path[j] = nodes[((i + n) >> (j + 1)) XOR 1] for j in [0, k - 1), in that
\* order; the path has exactly k - 1 entries (none for n = 2), never holds
\* nodes[1] or nodes[0], and height() = path.len() + 1 = k.
C17_ProofShape ==
    (op = "prove" /\ proved.tag = "Ok") =>
        LET n == VecLen(built.leaves)
            k == Log2(n)
            i == provedIdx
            path == proved.proof.path
        IN  /\ proved.proof.leaf = built.leaves[i]
            /\ proved.proof.sibling = built.leaves[XorOne(i)]
            /\ Len(path) = k - 1
            /\ \A j \in 0..(k - 2) :
                  /\ path[j + 1] = built.nodes[XorOne(Shr(i + n, j + 1))]
                  /\ XorOne(Shr(i + n, j + 1)) \notin {0, 1}
                  /\ path[j + 1] # built.nodes[1] /\ path[j + 1] # built.nodes[0]
            /\ height(proved.proof) = Len(path) + 1
            /\ height(proved.proof) = k

C17_Witness ==
    /\ op = "prove" /\ proved.tag = "Ok" /\ VecLen(built.leaves) = 8 /\ provedIdx = 5
    /\ Len(proved.proof.path) = 2
    /\ proved.proof.path[1] = built.nodes[7] /\ proved.proof.path[2] = built.nodes[2]
    /\ proved.proof.sibling = built.leaves[4]

\* The nodes indices some task or the tip loop has written.
Written == { x \in DOMAIN pOwner : pOwner[x] # NoOwner }

\* Task i takes its TaskRead step.
Reads(i) == pTask[i].pc = "read" /\ pTask'[i].pc = "write"

\* C18. Race freedom of the parallel build: no two workers ever write the same
\* nodes index, no worker reads an index another worker writes, every index a
\* worker reads at an upper level was written earlier by that worker, and the
\* tip build (indices 1..S) starts only after all S workers have finished and
\* reads only indices already written.
C18_RaceFreedom ==
    /\ [][\A x \in Written : pOwner'[x] = pOwner[x]]_vars
    /\ [][\A i \in DOMAIN pTask :
            Reads(i) => /\ pOwner[2 * pTask[i].k] = i
                        /\ pOwner[2 * pTask[i].k + 1] = i]_vars
    /\ [][(pPhase = "scope" /\ pPhase' # "scope") =>
            \A i \in DOMAIN pTask : pTask[i].pc = "done"]_vars
    /\ [](pPhase \in {"tip", "done"} =>
            /\ \A i \in DOMAIN pTask : pTask[i].pc = "done"
            /\ \A x \in Written : pOwner[x] = TipOwner <=> (x < pSub /\ x > pTip))
    /\ [](pPhase = "tip" => {2 * pTip, 2 * pTip + 1} \subseteq Written)

C18_Witness ==
    /\ pPhase = "tip" /\ VecLen(pLeaves) = 8 /\ pSub = 2 /\ pTip = 1
    /\ pOwner[2] = 0 /\ pOwner[3] = 1 /\ pOwner[4] = 0 /\ pOwner[6] = 1
    /\ pOwner[1] = NoOwner

\* The run is past the extension branch.
AfterBranch ==
    gPc \in {"validate", "boundary", "transition", "terminal", "composition", "emit", "returned"}

BaseColumnNames == base_columns(gIn).cols

ExtensionColumnNames == build_extension_columns(gIn, ChallengesOf(gIn)).m.cols

\* The constraint-evaluation matrices computed so far.
EvaluationsDone ==
    { gLoc.boundary_constraint_evals, gLoc.transition_constraint_evals,
      gLoc.terminal_constraint_evals } \ {NoMatrix}

\* Every constraint evaluated so far has read the trace LDE with columns cols.
EvaluationsRead(cols) ==
    \A m \in EvaluationsDone : \A j \in 1..Len(m.cols) : m.cols[j].read = cols

\* C19. Extension branch: without extension columns exactly one trace root is
\* absorbed before constraint evaluation and all three evaluations read the
\* base LDE alone; with them, they are interpolated and evaluated over the same
\* trace and LDE domains as the base columns, exactly two trace roots are
\* absorbed, and all three evaluations read one matrix: the base LDE columns
\* followed by the extension LDE columns (trace_polys likewise).
C19_ExtensionBranch ==
    AfterBranch =>
        IF ~ReturnsColumns
        THEN /\ Len(AbsorbedRoots) = 1
             /\ gLoc.trace_lde.cols = BaseColumnNames
             /\ gLoc.trace_polys.cols = BaseColumnNames
             /\ EvaluationsRead(BaseColumnNames)
        ELSE /\ Len(AbsorbedRoots) = 2
             /\ gLoc.extension.polys = interpolate_columns(gLoc.extension_matrix, trace_domain(gIn))
             /\ gLoc.extension.lde = evaluate(gLoc.extension.polys, lde_domain(gIn))
             /\ gLoc.extension.lde.rows = gLoc.trace_lde.rows
             /\ gLoc.extension.polys.rows = gLoc.trace_polys.rows
             /\ gLoc.trace_lde.form = "lde"
             /\ gLoc.trace_lde.cols = BaseColumnNames \o ExtensionColumnNames
             /\ gLoc.trace_polys.cols = BaseColumnNames \o ExtensionColumnNames
             /\ EvaluationsRead(BaseColumnNames \o ExtensionColumnNames)

C19_Witness ==
    /\ gPc = "composition" /\ ReturnsColumns /\ Cardinality(EvaluationsDone) = 3
    /\ Len(BaseColumnNames) = 2 /\ Len(ExtensionColumnNames) = 2
    /\ gLoc.terminal_constraint_evals.cols[1].read = BaseColumnNames \o ExtensionColumnNames
    /\ Len(AbsorbedRoots) = 2

\* C20. The trace_step passed to every constraint's evaluate_symbolic, for
\* boundary, transition and terminal constraints alike, equals
\* air.lde_blowup_factor(), for every AIR and every ProofOptions.
C20_TraceStepIsLdeBlowup ==
    \A m \in EvaluationsDone : \A j \in 1..Len(m.cols) :
        m.cols[j].trace_step = gIn.air.lde_blowup_factor

(***************************************************************************)
(* Claims about build_constraint_commitment, checked under SpecQuotient.   *)
(***************************************************************************)
ConstraintKinds == {"boundary", "transition", "terminal"}

\* The evaluation matrix handed in, the AIR's divisor and the quotient matrix
\* of one kind of constraint.
EvalsOf(k) ==
    CASE k = "boundary" -> qIn.boundary_constraint_evals
      [] k = "transition" -> qIn.transition_constraint_evals
      [] k = "terminal" -> qIn.terminal_constraint_evals

DivisorOf(k) ==
    CASE k = "boundary" -> qIn.air.boundary_constraint_divisor
      [] k = "transition" -> qIn.air.transition_constraint_divisor
      [] k = "terminal" -> qIn.air.terminal_constraint_divisor

QuotientsOf(k) ==
    CASE k = "boundary" -> qLoc.boundary_quotients
      [] k = "transition" -> qLoc.transition_quotients
      [] k = "terminal" -> qLoc.terminal_quotients

\* Column j of kind k at row r, times that kind's divisor at row r.
ExpectedQuotient(k, j, r) == (EvalsOf(k).cols[j][r] * DivisorOf(k)[r]) % FieldOrder

\* The columns of the three evaluation matrices, as (kind, column) pairs.
EvaluationColumns ==
    { c \in ConstraintKinds \X (1..MaxQuotientCols) : c[2] <= Len(EvalsOf(c[1]).cols) }

RECURSIVE IntegerSum(_, _)
IntegerSum(S, r) ==
    IF S = {} THEN 0
    ELSE LET c == CHOOSE x \in S : TRUE
         IN ExpectedQuotient(c[1], c[2], r) + IntegerSum(S \ {c}, r)

ExpectedSum(r) == IntegerSum(EvaluationColumns, r) % FieldOrder

\* C21. Composition column: build_constraint_commitment multiplies every
\* boundary evaluation column pointwise by the boundary divisor, every
\* transition column by the transition divisor and every terminal column by the
\* terminal divisor, never by a divisor of another kind; the committed
\* composition column is a single column of length L whose value at every row r
\* is the field sum over all quotient columns of their value at r.
C21_CompositionColumn ==
    /\ \A k \in ConstraintKinds :
          QuotientsOf(k) # NoMatrix =>
            /\ QuotientsOf(k).rows = qIn.rows
            /\ Len(QuotientsOf(k).cols) = Len(EvalsOf(k).cols)
            /\ \A j \in 1..Len(EvalsOf(k).cols) :
                  /\ Len(QuotientsOf(k).cols[j]) = qIn.rows
                  /\ \A r \in 1..qIn.rows :
                        QuotientsOf(k).cols[j][r] = ExpectedQuotient(k, j, r)
    /\ qPc \in {"interpolate", "commit", "returned"} =>
            /\ qLoc.eval_matrix.rows = qIn.rows
            /\ Len(qLoc.eval_matrix.cols) = 1
            /\ Len(qLoc.eval_matrix.cols[1]) = qIn.rows
            /\ \A r \in 1..qIn.rows : qLoc.eval_matrix.cols[1][r] = ExpectedSum(r)
    /\ qPc = "returned" =>
            /\ qLoc.merkle_tree.built
            /\ qLoc.merkle_tree.of = qLoc.eval_matrix

\* A call has returned whose three divisors differ pairwise, whose boundary
\* matrix has two columns, one of whose quotient columns differs from its
\* evaluation column, and whose sum wraps around the field order at some row.
C21_Witness ==
    /\ qPc = "returned"
    /\ Len(qIn.boundary_constraint_evals.cols) = 2
    /\ DivisorOf("boundary") # DivisorOf("transition")
    /\ DivisorOf("boundary") # DivisorOf("terminal")
    /\ DivisorOf("transition") # DivisorOf("terminal")
    /\ qLoc.transition_quotients.cols[1] # qIn.transition_constraint_evals.cols[1]
    /\ \E r \in 1..qIn.rows :
          /\ IntegerSum(EvaluationColumns, r) >= FieldOrder
          /\ qLoc.merkle_tree.of.cols[1][r] = ExpectedSum(r)

(***************************************************************************)
(* Claims about the matrix adapter's errors and verify's index, checked    *)
(* under Spec.                                                             *)
(***************************************************************************)
\* What MerkleTreeImpl::new returns for the row hashes of the matrix.
UnderlyingNew == MatrixMerkleTreeImpl_new([i \in 0..(num_rows(matrix) - 1) |->
                                                hash_row(read_row(matrix, i))])

\* prove_row(i) with i >= row count returns LeafIndexOutOfBounds{i, n}.
ProveRowErrorSurfaces ==
    kind = "matrix" /\ op = "prove" /\ provedIdx >= num_rows(matrix) =>
        proved = [tag |-> "LeafIndexOutOfBounds", i |-> provedIdx, n |-> num_rows(matrix)]

\* C22. Merkle errors reach the caller unchanged through the matrix adapter:
\* from_matrix on a matrix whose row count is below 2 or not a power of two
\* surfaces the underlying TooFewLeaves / NumberOfLeavesNotPowerOfTwo error to
\* its caller, and prove_row(i) with i >= row count surfaces
\* LeafIndexOutOfBounds{i, n} unchanged.
C22_AdapterErrorsSurface ==
    /\ kind = "matrix" /\ op # "init" =>
        /\ num_rows(matrix) < 2 =>
                built = [tag |-> "TooFewLeaves", expected |-> 2, actual |-> num_rows(matrix)]
        /\ num_rows(matrix) >= 2 /\ num_rows(matrix) \notin PowersOfTwo =>
                built = [tag |-> "NumberOfLeavesNotPowerOfTwo", n |-> num_rows(matrix)]
        /\ built.tag # "Ok" => built = UnderlyingNew
    /\ ProveRowErrorSurfaces

\* The last call reached MerkleTreeImpl::verify: directly, or through a
\* verify_row call whose row matched proof.leaf.
VerifyCalled == op = "verify" \/ (op = "verify_row" /\ delegated)

\* C23. verify consumes only the low bits of the index: for the root and the
\* proof of every verify call, of height h = path.len() + 1, and every index j,
\* verify(root, proof, j) returns what verify(root, proof, j mod 2^h) returns;
\* verify checks no bound of the index and never returns LeafIndexOutOfBounds.
C23_VerifyLowBits ==
    VerifyCalled =>
        LET h == height(vProof) IN
        /\ verified = verify(cfg, vRoot, vProof, vIdx % (2 ^ h))
        /\ verified.tag \in {"Ok", "InvalidProof"}
        /\ \A j \in 0..(4 * (2 ^ h) - 1) :
              /\ verify(cfg, vRoot, vProof, j) = verify(cfg, vRoot, vProof, j % (2 ^ h))
              /\ verify(cfg, vRoot, vProof, j).tag \in {"Ok", "InvalidProof"}

\* A proof of a tree of 4 leaves verified at an index past the last leaf and
\* accepted, while another index below 4 is rejected.
C23_Witness ==
    /\ op = "verify" /\ tampered = "none"
    /\ NumLeaves = 4 /\ height(vProof) = 2
    /\ vIdx >= NumLeaves /\ vIdx % 4 = provedIdx
    /\ verified.tag = "Ok"
    /\ \E j \in 0..3 : verify(cfg, vRoot, vProof, j).tag = "InvalidProof"

====
